---- MODULE Spec2Model ----
(***************************************************************************)
(* JamSniper: the dashboard (src/traffic.py) and the logging bot           *)
(* (src/bot.py).                                                           *)
(*                                                                         *)
(* Numbers.  The programs compute in Python floats; the model computes in  *)
(* exact rational arithmetic on integers, every comparison cross-          *)
(* multiplied by its (positive) denominators:                              *)
(*   - shift, tilt are in hundredths (0.05 is 5, 0.25 is 25);              *)
(*   - top_x, bottom_x are in hundredths of a pixel;                       *)
(*   - a box's coordinates are integers, its center is kept doubled        *)
(*     (x1 + x2, y1 + y2);                                                 *)
(*   - slope is the fraction num / den, num in hundredths of a pixel.      *)
(* IEEE-754 rounding is not represented.  A float division by zero raises  *)
(* ZeroDivisionError in Python, and so it does here.                       *)
(***************************************************************************)
EXTENDS Integers, Sequences, FiniteSets, TLC

VARIABLES
    world,        \* what the camera API, the image download and YOLO give
    dres,         \* draw_interface's locals when it returned or raised
    bres,         \* count_cars' locals when its try block ended
    bret,         \* count_cars' return value
    traffic_data, \* st.session_state['traffic_data']
    shift_val,    \* the Position slider
    tilt_val,     \* the Tilt slider
    view,         \* what the last script run rendered in the main area
    errors,       \* the st.error messages of the last script run
    event,        \* what triggered the last script run
    last_ok,      \* history: the data of the last refresh whose upstream worked
    rows,         \* data.csv
    results,      \* history: count_cars' return value of every bot run
    now           \* the clock, in minutes (UTC)

vars == <<world, dres, bres, bret, traffic_data, shift_val, tilt_val, view,
          errors, event, last_ok, rows, results, now>>

countVars == <<world, dres, bres, bret>>
dashVars == <<traffic_data, shift_val, tilt_val, view, errors, event, last_ok>>
botVars == <<rows, results, now>>

\* ------------------------------------------------------------------ bounds

MaxDet == 2
MaxDim == 2
MaxCars == 46
MaxRuns == 3

\* ------------------------------------------------------------------ values

None == [tag |-> "None"]

Box(c, a, b, d, e) == [cls |-> c, x1 |-> a, y1 |-> b, x2 |-> d, y2 |-> e]

Image(w, h) == [width |-> w, height |-> h]

Count(seq, v) == Cardinality({i \in DOMAIN seq : seq[i] = v})

\* n / d > k in floats, d # 0
QuotientGt(n, d, k) == IF d > 0 THEN n > k * d ELSE n < k * d

\* ------------------------------------------------- traffic.py: draw_interface

traffic_divider_swapped(width, shift, tilt) ==
    [top_x    |-> (width * 60) + (width * shift) - (width * tilt),
     bottom_x |-> (width * 40) + (width * shift) + (width * tilt)]

\* top_x, bottom_x in hundredths of a pixel
traffic_divider(width, shift, tilt) ==
    [top_x    |-> (width * 60) + (width * shift) + (width * tilt),
     bottom_x |-> (width * 40) + (width * shift) - (width * tilt)]

traffic_box_le(box, width, height, top_x, bottom_x) ==
    LET center_x2 == box.x1 + box.x2
        center_y2 == box.y1 + box.y2
        box_w == box.x2 - box.x1
        box_h == box.y2 - box.y1
    IN  IF 100 * center_y2 > 2 * (height * 60) /\ 100 * center_x2 < 2 * (width * 30)
        THEN "continue"
        ELSE IF box_h = 0 THEN "ZeroDivisionError"
        ELSE IF QuotientGt(box_w, box_h, 3) THEN "continue"
        ELSE IF 100 * height * center_x2
                    <= 2 * height * top_x + (bottom_x - top_x) * center_y2
             THEN "#00ff00"
             ELSE "#ff0000"

traffic_box_ge(box, width, height, top_x, bottom_x) ==
    LET center_x2 == box.x1 + box.x2
        center_y2 == box.y1 + box.y2
        box_w == box.x2 - box.x1
        box_h == box.y2 - box.y1
    IN  IF 100 * center_y2 > 2 * (height * 60) /\ 100 * center_x2 < 2 * (width * 30)
        THEN "continue"
        ELSE IF box_h = 0 THEN "ZeroDivisionError"
        ELSE IF box_w >= 3 * box_h THEN "continue"
        ELSE IF 100 * height * center_x2
                    < 2 * height * top_x + (bottom_x - top_x) * center_y2
             THEN "#00ff00"
             ELSE "#ff0000"

\* One pass of the loop body for one box (height # 0: slope exists).
\* center_y > height*0.60 and center_x < width*0.30   (both sides times 200)
\* box_w / box_h > 3.0
\* center_x < top_x + slope*center_y                 (times 200*height > 0)
traffic_box(box, width, height, top_x, bottom_x) ==
    LET center_x2 == box.x1 + box.x2
        center_y2 == box.y1 + box.y2
        box_w == box.x2 - box.x1
        box_h == box.y2 - box.y1
    IN  IF 100 * center_y2 > 2 * (height * 60) /\ 100 * center_x2 < 2 * (width * 30)
        THEN "continue"
        ELSE IF box_h = 0 THEN "ZeroDivisionError"
        ELSE IF QuotientGt(box_w, box_h, 3) THEN "continue"
        ELSE IF 100 * height * center_x2
                    < 2 * height * top_x + (bottom_x - top_x) * center_y2
             THEN "#00ff00"
             ELSE "#ff0000"

traffic_tally_fallthrough(st, r) ==
    [st EXCEPT !.to_johor = @ + (IF r = "#00ff00" THEN 1 ELSE 0),
               !.to_woodlands = @ + (IF r # "#00ff00" THEN 1 ELSE 0),
               !.marks = Append(@, r)]

\* What one pass does to the locals: the counters, and (marks) what was
\* drawn for the box: a green or a red rectangle, or nothing ("continue").
traffic_tally(st, r) ==
    [st EXCEPT !.to_johor = @ + (IF r = "#00ff00" THEN 1 ELSE 0),
               !.to_woodlands = @ + (IF r = "#ff0000" THEN 1 ELSE 0),
               !.marks = Append(@, r)]

RECURSIVE traffic_loop(_, _, _, _, _)
traffic_loop(boxes, i, st, width, height) ==
    IF i > Len(boxes) THEN st
    ELSE LET r == traffic_box(boxes[i], width, height, st.top_x, st.bottom_x)
         IN  IF r = "ZeroDivisionError"
             THEN [st EXCEPT !.status = "ZeroDivisionError"]
             ELSE traffic_loop(boxes, i + 1, traffic_tally(st, r), width, height)

\* The locals at the return (status "ok") or at the raise.
draw_interface(data, shift, tilt) ==
    LET width == data.image.width
        height == data.image.height
        line == traffic_divider(width, shift, tilt)
        st0 == [status |-> "ok", top_x |-> line.top_x, bottom_x |-> line.bottom_x,
                slope |-> [num |-> line.bottom_x - line.top_x, den |-> height],
                to_johor |-> 0, to_woodlands |-> 0, marks |-> <<>>]
    IN  IF height = 0
        THEN [st0 EXCEPT !.status = "ZeroDivisionError"]
        ELSE traffic_loop(data.results, 1, st0, width, height)

\* ------------------------------------------------------- bot.py: count_cars

SHIFT == 5

TILT_stale == 25 - 5

TILT == 25

bot_divider(width) ==
    [top_x    |-> (width * 60) + (width * SHIFT) + (width * TILT),
     bottom_x |-> (width * 40) + (width * SHIFT) - (width * TILT)]

\* One pass of the loop body for one box (height # 0), as traffic_box.
bot_box(box, width, height, top_x, bottom_x) ==
    LET center_x2 == box.x1 + box.x2
        center_y2 == box.y1 + box.y2
        box_w == box.x2 - box.x1
        box_h == box.y2 - box.y1
    IN  IF 100 * center_y2 > 2 * (height * 60) /\ 100 * center_x2 < 2 * (width * 30)
        THEN "continue"
        ELSE IF box_h = 0 THEN "ZeroDivisionError"
        ELSE IF QuotientGt(box_w, box_h, 3) THEN "continue"
        ELSE IF 100 * height * center_x2
                    < 2 * height * top_x + (bottom_x - top_x) * center_y2
             THEN "to_johor"
             ELSE "to_woodlands"

\* marks: which branch each box took; the bot itself keeps only the counters.
bot_tally(st, r) ==
    [st EXCEPT !.to_johor = @ + (IF r = "to_johor" THEN 1 ELSE 0),
               !.to_woodlands = @ + (IF r = "to_woodlands" THEN 1 ELSE 0),
               !.marks = Append(@, r)]

RECURSIVE bot_loop(_, _, _, _, _)
bot_loop(boxes, i, st, width, height) ==
    IF i > Len(boxes) THEN st
    ELSE LET r == bot_box(boxes[i], width, height, st.top_x, st.bottom_x)
         IN  IF r = "ZeroDivisionError"
             THEN [st EXCEPT !.status = "ZeroDivisionError"]
             ELSE bot_loop(boxes, i + 1, bot_tally(st, r), width, height)

\* "3. Math Logic": the locals at the return (status "ok") or at the raise.
bot_math(img, boxes) ==
    LET width == img.width
        height == img.height
        line == bot_divider(width)
        st0 == [status |-> "ok", top_x |-> line.top_x, bottom_x |-> line.bottom_x,
                slope |-> [num |-> line.bottom_x - line.top_x, den |-> height],
                to_johor |-> 0, to_woodlands |-> 0, marks |-> <<>>]
    IN  IF height = 0
        THEN [st0 EXCEPT !.status = "ZeroDivisionError"]
        ELSE bot_loop(boxes, 1, st0, width, height)

\* The locals of the try block at its end: where it stopped, and the math's.
\* A response that is not the camera list has no 'value' (or is no JSON):
\* an exception, like a failed request.
bot_try(w) ==
    LET idle == [bot_math(Image(0, 1), <<>>) EXCEPT !.status = "not run"]
    IN  IF w.api \in {"exception", "non200"} THEN [idle EXCEPT !.status = "exception"]
        ELSE IF w.api = "no2701" THEN [idle EXCEPT !.status = "not found"]
        ELSE IF w.img = "exception" \/ w.yolo = "exception"
             THEN [idle EXCEPT !.status = "exception"]
             ELSE bot_math(w.frame, w.dets)

count_cars_zero(w) ==
    LET st == bot_try(w)
    IN  [tag |-> "counts",
         to_johor |-> IF st.status = "ok" THEN st.to_johor ELSE 0,
         to_woodlands |-> IF st.status = "ok" THEN st.to_woodlands ELSE 0]

count_cars(w) ==
    LET st == bot_try(w)
    IN  IF st.status = "ok"
        THEN [tag |-> "counts", to_johor |-> st.to_johor, to_woodlands |-> st.to_woodlands]
        ELSE None

\* ------------------------------------------------------- the world, bounded

\* classes=[2, 3, 5, 7]: car, motorcycle, bus, truck
Palette ==
    { Box(2, 800, 250, 900, 350),    \* center (850, 300)
      Box(3, 800, 250, 900, 350),    \* the same box, a motorcycle
      Box(2, 500, 250, 600, 350),    \* center (550, 300)
      Box(3, 499, 250, 600, 350),    \* center (549.5, 300)
      Box(2, 100, 400, 200, 500),    \* center (150, 450): bottom-left corner
      Box(5, 250, 400, 350, 500),    \* center (300, 450)
      Box(7, 100, 310, 200, 410),    \* center (150, 360)
      Box(2, 400, 100, 700, 200),    \* 300 x 100
      Box(3, 400, 100, 701, 200),    \* 301 x 100
      Box(5, 310, 440, 650, 460),    \* 340 x 20, center (480, 450)
      Box(2, 100, 50, 200, 50),      \* y2 = y1
      Box(3, 100, 450, 200, 450),    \* y2 = y1, center (150, 450)
      Box(2, 200, 100, 100, 200),    \* x2 < x1
      Box(7, 100, 200, 200, 100) }   \* y2 < y1

SeqsUpTo(S, n) == UNION {[1..k -> S] : k \in 0..n}

\* img.size of a PIL image: no side is negative
CountFrames == {Image(1000, 600), Image(320, 240), Image(0, 600), Image(1000, 0)}

DividerFrames == {Image(1000, 600)} \cup {Image(w, h) : w \in 1..MaxDim, h \in 1..MaxDim}

\* st.sidebar.slider(-0.5, 0.5, default, 0.01)
SliderRange == -50..50

SliderVals == {-50, 5, 25}

shift_default == 5

tilt_default == 25

World(api, img, yolo, frame, dets) ==
    [api |-> api, img |-> img, yolo |-> yolo, frame |-> frame, dets |-> dets]

Working(frame, dets) == World("ok", "ok", "ok", frame, dets)

\* the API answers and lists camera 2701, the image opens, YOLO returns
UpstreamOk(w) == w.api = "ok" /\ w.img = "ok" /\ w.yolo = "ok"

Failures ==
    { World("exception", "ok", "ok", Image(1, 1), <<>>),
      World("non200", "ok", "ok", Image(1, 1), <<>>),
      World("no2701", "ok", "ok", Image(1, 1), <<>>),
      World("ok", "exception", "ok", Image(1, 1), <<>>),
      World("ok", "ok", "exception", Image(1, 1), <<>>) }

Data(frame, dets) == [tag |-> "data", image |-> frame, results |-> dets]

NotRun == [status |-> "not run"]

\* ------------------------------------------------------------ the two loops
\* Both programs are given the same image and the same detections.

InitIdleDash ==
    /\ view = [kind |-> "none"]
    /\ errors = {}
    /\ event = "none"
    /\ last_ok = None

InitIdleBot ==
    /\ rows = <<>>
    /\ results = <<>>
    /\ now = 0

InitCount ==
    /\ world \in {Working(f, d) : f \in CountFrames, d \in SeqsUpTo(Palette, MaxDet)}
    /\ traffic_data = Data(world.frame, world.dets)
    /\ shift_val \in SliderVals
    /\ tilt_val \in SliderVals
    /\ dres = NotRun
    /\ bres = NotRun
    /\ bret = None
    /\ InitIdleDash
    /\ InitIdleBot

InitDivider ==
    /\ world \in {Working(f, <<>>) : f \in DividerFrames}
    /\ traffic_data = Data(world.frame, world.dets)
    /\ shift_val \in SliderRange
    /\ tilt_val \in SliderRange
    /\ dres = NotRun
    /\ bres = NotRun
    /\ bret = None
    /\ InitIdleDash
    /\ InitIdleBot

RunDashboard ==
    /\ dres = NotRun
    /\ dres' = draw_interface(traffic_data, shift_val, tilt_val)
    /\ UNCHANGED <<world, bres, bret, traffic_data, shift_val, tilt_val, view,
                   errors, event, last_ok, rows, results, now>>

RunBot ==
    /\ bres = NotRun
    /\ bres' = bot_try(world)
    /\ bret' = count_cars(world)
    /\ UNCHANGED <<world, dres, traffic_data, shift_val, tilt_val, view,
                   errors, event, last_ok, rows, results, now>>

NextCount == RunDashboard \/ RunBot

SpecCount == InitCount /\ [][NextCount]_vars

SpecDivider == InitDivider /\ [][NextCount]_vars

\* ------------------------------------------------- properties: the two loops

Ran(st) == st.status # "not run"

\* the group a pass put its box in
Group(mark) ==
    CASE mark = "continue" -> "Excluded"
      [] mark \in {"#00ff00", "to_johor"} -> "SideA"
      [] mark \in {"#ff0000", "to_woodlands"} -> "SideB"
      [] OTHER -> "none"

InGroup(st, g) == {i \in DOMAIN st.marks : Group(st.marks[i]) = g}

Malformed(b) == b.x2 <= b.x1 \/ b.y2 <= b.y1

Partitioned(st, n) ==
    /\ \A i \in DOMAIN st.marks : Group(st.marks[i]) \in {"Excluded", "SideA", "SideB"}
    /\ st.to_johor = Cardinality(InGroup(st, "SideA"))
    /\ st.to_woodlands = Cardinality(InGroup(st, "SideB"))
    /\ st.to_johor + st.to_woodlands + Cardinality(InGroup(st, "Excluded"))
           = Len(st.marks)
    /\ st.status = "ok" => Len(st.marks) = n

\* a frame and detections as the data model has them
WellFormedInput ==
    /\ world.frame.width > 0 /\ world.frame.height > 0
    /\ \A i \in DOMAIN world.dets : ~Malformed(world.dets[i])

\* C1: in both loops every detection processed is in exactly one of the
\* groups excluded, to_johor, to_woodlands: each counter is the size of its
\* group, the three sizes add up to the number of detections processed, and
\* a loop that ran to its end processed every detection; the bot returns the
\* two counters.  On a frame of positive size with well-formed detections
\* both loops run to their end.
C1_Partition ==
    /\ Ran(dres) =>
          /\ Partitioned(dres, Len(world.dets))
          /\ WellFormedInput => dres.status = "ok"
    /\ Ran(bres) =>
          /\ Partitioned(bres, Len(world.dets))
          /\ WellFormedInput => bres.status = "ok" /\ bret.tag = "counts"
          /\ bret.tag = "counts" =>
                bret.to_johor = bres.to_johor /\ bret.to_woodlands = bres.to_woodlands

C1_Witness ==
    /\ dres.status = "ok" /\ bres.status = "ok"
    /\ Len(world.dets) = 2
    /\ Cardinality(InGroup(dres, "Excluded")) = 1
    /\ dres.to_johor = 1
    /\ Cardinality(InGroup(bres, "Excluded")) = 1
    /\ bret.tag = "counts"

WellFormedOnly(dets) == SelectSeq(dets, LAMBDA b : ~Malformed(b))

\* C4: a malformed detection is skipped and does not abort the cycle: on a
\* frame of positive size both loops run to their end with the counts of the
\* same list without its malformed detections.
C4_MalformedSkipped ==
    (world.frame.width > 0 /\ world.frame.height > 0) =>
        /\ Ran(dres) =>
              LET ref == draw_interface(Data(world.frame, WellFormedOnly(world.dets)),
                                        shift_val, tilt_val)
              IN  /\ dres.status = "ok"
                  /\ dres.to_johor = ref.to_johor
                  /\ dres.to_woodlands = ref.to_woodlands
        /\ Ran(bres) =>
              bret = count_cars(Working(world.frame, WellFormedOnly(world.dets)))

\* C5: on a degenerate frame (width <= 0 or height <= 0) both programs fail
\* before any detection is classified, and the bot returns no counts.
C5_DegenerateFrameFails ==
    (world.frame.width <= 0 \/ world.frame.height <= 0) =>
        /\ Ran(dres) => dres.status # "ok" /\ dres.marks = <<>>
        /\ Ran(bres) => bres.status # "ok" /\ bres.marks = <<>> /\ bret = None

\* center_x < divX, divX = top_x + slope*center_y with the loop's own top_x
\* (hundredths) and slope (num/den, den > 0):
\*   100*cx2/2 < top_x + (num/den)*(cy2/2)      (times 2*den)
LeftOfDivider(st, b) ==
    100 * st.slope.den * (b.x1 + b.x2)
        < 2 * st.slope.den * st.top_x + st.slope.num * (b.y1 + b.y2)

OnDivider(st, b) ==
    100 * st.slope.den * (b.x1 + b.x2)
        = 2 * st.slope.den * st.top_x + st.slope.num * (b.y1 + b.y2)

SidesByDivider(st) ==
    \A i \in DOMAIN st.marks :
        LET b == world.dets[i]
            g == Group(st.marks[i])
        IN  g # "Excluded" =>
              /\ g = "SideA" <=> LeftOfDivider(st, b)
              /\ g = "SideB" <=> ~LeftOfDivider(st, b)
              /\ OnDivider(st, b) => g = "SideB"

\* frame 1000x600, shift 0.05, tilt 0.25, center (850, 300): divX is 550, SideB
Example850(st) ==
    \A i \in DOMAIN st.marks :
        LET b == world.dets[i]
        IN  (/\ world.frame = Image(1000, 600)
             /\ st.top_x = 90000 /\ st.bottom_x = 20000
             /\ b.x1 + b.x2 = 2 * 850 /\ b.y1 + b.y2 = 2 * 300
             /\ b.x2 > b.x1 /\ b.y2 > b.y1)
            => /\ 2 * st.slope.den * st.top_x + st.slope.num * (b.y1 + b.y2)
                     = 550 * 200 * st.slope.den
               /\ Group(st.marks[i]) = "SideB"

\* C6: in both loops a detection that is not excluded is to_johor exactly when
\* center_x < top_x + slope*center_y and to_woodlands otherwise, a center on
\* the divider included; at 1000x600, 0.05, 0.25 a center (850, 300) has
\* divX = 550 and is to_woodlands.
C6_SideRule ==
    /\ Ran(dres) => SidesByDivider(dres) /\ Example850(dres)
    /\ Ran(bres) => SidesByDivider(bres) /\ Example850(bres)

C6_Witness ==
    /\ world.frame = Image(1000, 600)
    /\ shift_val = 5 /\ tilt_val = 25
    /\ world.dets = <<Box(2, 800, 250, 900, 350), Box(2, 500, 250, 600, 350)>>
    /\ dres.status = "ok" /\ dres.marks = <<"#ff0000", "#ff0000">>
    /\ OnDivider(dres, world.dets[2])
    /\ bres.status = "ok" /\ bres.marks = <<"to_woodlands", "to_woodlands">>

\* center_y > 0.60*height and center_x < 0.30*width    (times 10)
ZoneRule(b, frame) ==
    5 * (b.y1 + b.y2) > 6 * frame.height /\ 5 * (b.x1 + b.x2) < 3 * frame.width

\* (x2 - x1)/(y2 - y1) > 3.0, y2 > y1
AspectRule(b) == (b.x2 - b.x1) > 3 * (b.y2 - b.y1)

NoiseByRules(st) ==
    \A i \in DOMAIN st.marks :
        LET b == world.dets[i]
        IN  ~Malformed(b) =>
              (Group(st.marks[i]) = "Excluded" <=> (ZoneRule(b, world.frame) \/ AspectRule(b)))

\* C7: in both loops a well-formed detection, whatever its class, is excluded
\* exactly when its center is strictly inside the bottom-left zone or its
\* width/height is strictly above 3.
C7_NoiseRule ==
    /\ Ran(dres) => NoiseByRules(dres)
    /\ Ran(bres) => NoiseByRules(bres)

\* ratio exactly 3.0 is kept; a center on the zone's x boundary is kept
C7_Witness ==
    /\ world.frame = Image(1000, 600)
    /\ world.dets = <<Box(2, 400, 100, 700, 200), Box(5, 250, 400, 350, 500)>>
    /\ dres.status = "ok"
    /\ Group(dres.marks[1]) # "Excluded" /\ Group(dres.marks[2]) # "Excluded"
    /\ bres.status = "ok"
    /\ Group(bres.marks[1]) # "Excluded" /\ Group(bres.marks[2]) # "Excluded"

\* C10: at the slider defaults the dashboard and the bot agree on the same
\* frame and detections: one returns counts exactly when the other does, the
\* counts are equal, and each detection is in the same group in both.
C10_BotMatchesDashboard ==
    (shift_val = shift_default /\ tilt_val = tilt_default /\ Ran(dres) /\ Ran(bres)) =>
        /\ dres.status = "ok" <=> bret.tag = "counts"
        /\ bret.tag = "counts" =>
              /\ bret.to_johor = dres.to_johor
              /\ bret.to_woodlands = dres.to_woodlands
        /\ Len(dres.marks) = Len(bres.marks)
        /\ \A i \in DOMAIN dres.marks : Group(dres.marks[i]) = Group(bres.marks[i])

C10_Witness ==
    /\ shift_val = shift_default /\ tilt_val = tilt_default
    /\ dres.status = "ok" /\ bret.tag = "counts"
    /\ dres.to_johor = 1 /\ dres.to_woodlands = 1
    /\ bret.to_johor = 1 /\ bret.to_woodlands = 1

\* C8: for width, height > 0 the dashboard's divider is
\* top_x = 0.6*width + width*(shift + tilt), bottom_x = 0.4*width +
\* width*(shift - tilt), its slope (bottom_x - top_x)/height, so that the line
\* is at top_x for y = 0 and at bottom_x for y = height; the bot's is the same
\* at 0.05, 0.25; at 1000x600, 0.05, 0.25: 900 and 200.
C8_Divider ==
    LET w == world.frame.width
        h == world.frame.height
        Line(st, s, t) ==
            /\ st.top_x = 60 * w + w * (s + t)
            /\ st.bottom_x = 40 * w + w * (s - t)
            /\ st.slope.num * h = (st.bottom_x - st.top_x) * st.slope.den
            /\ st.top_x * st.slope.den + st.slope.num * h
                   = st.bottom_x * st.slope.den
            /\ (w = 1000 /\ h = 600 /\ s = 5 /\ t = 25)
                   => st.top_x = 900 * 100 /\ st.bottom_x = 200 * 100
    IN  (w > 0 /\ h > 0) =>
            /\ Ran(dres) => Line(dres, shift_val, tilt_val)
            /\ Ran(bres) => Line(bres, 5, 25)

C8_Witness ==
    /\ world.frame = Image(1000, 600)
    /\ shift_val = 5 /\ tilt_val = 25
    /\ dres.status = "ok" /\ dres.top_x = 90000 /\ dres.bottom_x = 20000
    /\ bres.status = "ok" /\ bres.top_x = 90000

\* ------------------------------------------------- traffic.py: the dashboard

\* ret: the return value; error: st.error(f"Error: {e}") was shown.
\* A status other than 200, or no camera 2701 in the list, leaves target_link
\* None: no exception.
fetch_and_analyze(w) ==
    IF w.api = "exception" THEN [ret |-> None, error |-> TRUE]
    ELSE IF w.api \in {"non200", "no2701"} THEN [ret |-> None, error |-> FALSE]
    ELSE IF w.img = "exception" \/ w.yolo = "exception" THEN [ret |-> None, error |-> TRUE]
    ELSE [ret |-> Data(w.frame, w.dets), error |-> FALSE]

refresh_feed_overwrite(td, fetched) ==
    [traffic_data |-> fetched.ret,
     errors |-> (IF fetched.error THEN {"Error"} ELSE {})
                  \cup (IF fetched.ret.tag = "data" THEN {} ELSE {"Camera Offline"})]

\* the body of: if st.sidebar.button("Refresh Feed")
refresh_feed(td, fetched) ==
    IF fetched.ret.tag = "data"
    THEN [traffic_data |-> fetched.ret,
          errors |-> IF fetched.error THEN {"Error"} ELSE {}]
    ELSE [traffic_data |-> td,
          errors |-> (IF fetched.error THEN {"Error"} ELSE {}) \cup {"Camera Offline"}]

johor_card_le(count_johor) ==
    IF count_johor <= 25 THEN "CLEAR"
    ELSE IF count_johor <= 45 THEN "MODERATE"
    ELSE "JAM"

johor_card(count_johor) ==
    IF count_johor < 25 THEN "CLEAR"
    ELSE IF count_johor < 45 THEN "MODERATE"
    ELSE "JAM"

woodlands_card(count_woodlands) ==
    IF count_woodlands < 25 THEN "CLEAR"
    ELSE IF count_woodlands < 45 THEN "MODERATE"
    ELSE "JAM"

\* col2, "3. STATS CARDS", for the counts draw_interface returned
stats_cards(count_johor, count_woodlands) ==
    [kind |-> "dashboard",
     count_johor |-> count_johor,
     count_woodlands |-> count_woodlands,
     johor_status |-> johor_card(count_johor),
     woodlands_status |-> woodlands_card(count_woodlands)]

\* What the main area shows at the end of a script run; an exception raised
\* by draw_interface ends the run with the traceback and no counts.
main_display(td, shift, tilt) ==
    IF td.tag = "None" THEN [kind |-> "info"]
    ELSE LET r == draw_interface(td, shift, tilt)
         IN  IF r.status # "ok" THEN [kind |-> "exception"]
             ELSE stats_cards(r.to_johor, r.to_woodlands)

LeftCar == Box(2, 100, 100, 200, 200)

RightCar == Box(2, 800, 100, 900, 200)

\* n vehicles left of the default divider
Traffic(n) == [i \in 1..n |-> LeftCar]

\* 25 vehicles left of the default divider and 45 right of it
RushHour == Traffic(25) \o [i \in 1..45 |-> RightCar]

DashWorlds ==
    Failures
    \cup {Working(Image(1000, 600), RushHour)}
    \cup {Working(Image(1000, 600), Traffic(n)) : n \in 0..MaxCars}
    \cup {Working(Image(1000, 600), <<Box(2, 100, 400, 200, 500), LeftCar, RightCar>>),
          Working(Image(1000, 600), <<Box(2, 100, 50, 200, 50)>>)}

InitIdleCount ==
    /\ world = Working(Image(1, 1), <<>>)
    /\ dres = NotRun
    /\ bres = NotRun
    /\ bret = None

\* the first script run: nothing clicked, the sliders at their defaults
InitDash ==
    /\ traffic_data = None
    /\ shift_val = shift_default
    /\ tilt_val = tilt_default
    /\ view = main_display(None, shift_default, tilt_default)
    /\ errors = {}
    /\ event = "open"
    /\ last_ok = None
    /\ InitIdleCount
    /\ InitIdleBot

\* A click on Refresh Feed: one script run with the button True.
RefreshFeed ==
    \E w \in DashWorlds :
        LET after == refresh_feed(traffic_data, fetch_and_analyze(w))
        IN  /\ traffic_data' = after.traffic_data
            /\ errors' = after.errors
            /\ view' = main_display(after.traffic_data, shift_val, tilt_val)
            /\ event' = IF UpstreamOk(w) THEN "refresh ok" ELSE "refresh failed"
            /\ last_ok' = IF UpstreamOk(w) THEN Data(w.frame, w.dets) ELSE last_ok
            /\ UNCHANGED <<shift_val, tilt_val, world, dres, bres, bret, rows, results, now>>

\* A slider moved: one script run with the button False.
MoveShift ==
    \E v \in SliderVals \ {shift_val} :
        /\ shift_val' = v
        /\ errors' = {}
        /\ view' = main_display(traffic_data, v, tilt_val)
        /\ event' = "slider"
        /\ UNCHANGED <<traffic_data, tilt_val, last_ok, world, dres, bres, bret,
                       rows, results, now>>

MoveTilt ==
    \E v \in SliderVals \ {tilt_val} :
        /\ tilt_val' = v
        /\ errors' = {}
        /\ view' = main_display(traffic_data, shift_val, v)
        /\ event' = "slider"
        /\ UNCHANGED <<traffic_data, shift_val, last_ok, world, dres, bres, bret,
                       rows, results, now>>

NextDash == RefreshFeed \/ MoveShift \/ MoveTilt

SpecDash == InitDash /\ [][NextDash]_vars

\* C2: the session keeps the last successful analysis: traffic_data is the
\* data of the last refresh whose upstream worked (None before the first), a
\* failed refresh shows "Camera Offline", and once there is such data the main
\* area never shows the "click Refresh" state again and any counts shown are
\* those of that data at the current sliders.
C2_LastGoodKept ==
    /\ traffic_data = last_ok
    /\ event = "refresh failed" => "Camera Offline" \in errors
    /\ last_ok.tag = "data" =>
          /\ view.kind \in {"dashboard", "exception"}
          /\ view.kind = "dashboard" =>
                LET r == draw_interface(last_ok, shift_val, tilt_val)
                IN  view.count_johor = r.to_johor /\ view.count_woodlands = r.to_woodlands

C2_Witness ==
    /\ event = "refresh failed"
    /\ last_ok.tag = "data"
    /\ traffic_data = last_ok
    /\ view.kind = "dashboard"
    /\ view.count_johor > 0

Band(count) ==
    CASE count < 25 -> "CLEAR"
      [] 25 <= count /\ count < 45 -> "MODERATE"
      [] count >= 45 -> "JAM"

\* C9: each side's card shows CLEAR below 25, MODERATE from 25 to 44 and JAM
\* from 45 on, for the count shown on that card.
C9_StatusBands ==
    LET Card(c, s) ==
            /\ c >= 0
            /\ s = Band(c)
            /\ c = 24 => s = "CLEAR"
            /\ c \in {25, 44} => s = "MODERATE"
            /\ c = 45 => s = "JAM"
    IN  view.kind = "dashboard" =>
            /\ Card(view.count_johor, view.johor_status)
            /\ Card(view.count_woodlands, view.woodlands_status)

C9_Witness ==
    /\ view.kind = "dashboard"
    /\ view.count_johor = 25 /\ view.johor_status = "MODERATE"
    /\ view.count_woodlands = 45 /\ view.woodlands_status = "JAM"

\* ------------------------------------------------------- bot.py: __main__

\* (datetime.utcnow() + timedelta(hours=8)).strftime("%Y-%m-%d %H:%M"):
\* Singapore time, to the minute
sg_time(t) == t + 8 * 60

\* j, w = count_cars(); if j is not None: append the row to data.csv
main(csv, ret, t) ==
    IF ret.tag # "None"
    THEN Append(csv, <<sg_time(t), ret.to_johor, ret.to_woodlands>>)
    ELSE csv

BotWorlds ==
    Failures
    \cup {Working(Image(1000, 600), d) :
            d \in {<<>>,
                   <<LeftCar, RightCar, RightCar>>,
                   <<Box(2, 100, 400, 200, 500)>>,
                   <<LeftCar, Box(2, 100, 50, 200, 50)>>}}
    \cup {Working(Image(1000, 0), <<LeftCar>>)}

InitBot ==
    /\ rows = <<>>
    /\ results = <<>>
    /\ now = 0
    /\ traffic_data = None
    /\ shift_val = shift_default
    /\ tilt_val = tilt_default
    /\ InitIdleDash
    /\ InitIdleCount

\* One run of the script, some minutes (or none) after the one before.
BotRun ==
    /\ Len(results) < MaxRuns
    /\ \E w \in BotWorlds, tick \in 0..1 :
          LET ret == count_cars(w)
          IN  /\ now' = now + tick
              /\ rows' = main(rows, ret, now + tick)
              /\ results' = Append(results,
                                   [world |-> w, locals |-> bot_try(w), ret |-> ret,
                                    at |-> now + tick])
    /\ UNCHANGED <<world, dres, bres, bret, traffic_data, shift_val, tilt_val,
                   view, errors, event, last_ok>>

NextBot == BotRun

SpecBot == InitBot /\ [][NextBot]_vars

Logged == SelectSeq(results, LAMBDA e : e.ret.tag = "counts")

\* C3: a run whose upstream failed classifies nothing and returns (None,
\* None); a run returns counts only when its upstream worked and its loop ran
\* to the end, and then the loop's counters; data.csv holds, in order, one row
\* (time, to_johor, to_woodlands) for each run that returned counts and no
\* other row.
C3_NoFabricatedRow ==
    /\ \A i \in DOMAIN results :
          LET e == results[i]
          IN  /\ ~UpstreamOk(e.world) =>
                    /\ e.ret = None
                    /\ e.locals.status \in {"exception", "not found"}
                    /\ e.locals.marks = <<>>
              /\ e.ret.tag = "counts" =>
                    /\ UpstreamOk(e.world)
                    /\ e.locals.status = "ok"
                    /\ e.ret.to_johor = e.locals.to_johor
                    /\ e.ret.to_woodlands = e.locals.to_woodlands
              /\ e.ret.tag \in {"counts", "None"}
    /\ Len(rows) = Len(Logged)
    /\ \A k \in DOMAIN rows :
          rows[k] = <<Logged[k].at + 480, Logged[k].ret.to_johor, Logged[k].ret.to_woodlands>>

\* three runs: a failed one, one that counted nothing (0, 0), one that counted
C3_Witness ==
    /\ Len(results) = 3
    /\ ~UpstreamOk(results[1].world)
    /\ results[2].ret = [tag |-> "counts", to_johor |-> 0, to_woodlands |-> 0]
    /\ results[3].ret = [tag |-> "counts", to_johor |-> 1, to_woodlands |-> 2]
    /\ Len(rows) = 2
    /\ rows[1][2] = 0 /\ rows[2][2] = 1

====
